---- MODULE Spec2Model ----
(***************************************************************************)
(* FieldSolver of src/Main/SolverChameleon.py as a state machine.          *)
(*                                                                         *)
(* The attributes of one FieldSolver object are the variables.  A call of  *)
(* a method pushes a frame on `stack`; the frames of the methods a method  *)
(* calls lie above its own, the top frame is the code that runs next, and  *)
(* an exception unwinds every frame.  The solver is used sequentially: a   *)
(* new call or an attribute assignment happens only while no call runs.    *)
(*                                                                         *)
(* dolfin is outside the repository.  The field is carried at one degree   *)
(* of freedom as an integer, the arithmetic the methods do themselves (the *)
(* update, du, the norm, the loop test) is done on it as written, and the  *)
(* result of a linear solve of an outer iteration is any value near the    *)
(* current field, or a failure.  field_version counts the solves that have *)
(* replaced the field; a projected quantity is carried as the version(s)   *)
(* of what its right-hand side was assembled from.                         *)
(***************************************************************************)
EXTENDS Integers, Sequences, FiniteSets, TLC

\* ------------------------------------------------------------- bounds
\* the largest maxiter, the largest |du| a linear solve answers, and the
\* number of solves in one life of the solver
MaxIter == 2
MaxDu == 1
MaxSolves == 2
\* the largest |coordinate| of a probe's vectors and the largest radial_limit
MaxCoord == 2
MaxRadial == 5
\* the number of vertices of a sub-mesh, the largest distance of a vertex
\* from the boundary, and the largest value of the gradient magnitude
MaxVertices == 2
MaxDistance == 3
MaxFF == 2

\* MeshingTools: the longest list of points given to constrain_distance and
\* the largest coordinate of a point
MaxPoints == 4
MaxPointCoord == 4

\* MeshingTools: the most shapes given to non_intersect_shapes and the
\* largest tag of a fragment
MaxShapes == 4
MaxFragment == 2

\* MeshingTools: the most shapes ever made in one gmsh model
MaxTag == 4

\* du_norm before the first test of the loop condition
DuNormSeed == 1

\* self.relaxation_parameter after __init__
DefaultRelaxation == 1

\* self.Min_length of MeshingTools, in the unit of the coordinates
Min_length == 2

NVals == {1}
\* the values self.n is reassigned to
SettableN == {0, 1}
RelaxationVals == {1, 3}
\* tolerances below every nonzero norm, and at the seed of du_norm
TolVals == {0, DuNormSeed}
IterVals == 0..MaxIter
DuVals == (0 - MaxDu)..MaxDu

\* The densities are powers of two with a negative exponent, so that
\* pow(density_max, -1/(n+1)) is an integer: density_max = 2^(-DensityExp).
DensityExp == 1 + 1

\* ------------------------------------------------------------ values
\* Python's None and a set attribute
None == <<>>
Some(x) == <<x>>
Val(s) == s[1]

Abs(x) == IF x < 0 THEN 0 - x ELSE x

Modes == {"picard", "newton"}
CalcOps == {"calc_field_grad_vector", "calc_field_grad_mag",
            "calc_field_residual", "calc_laplacian", "calc_density_field",
            "calc_potential_derivative"}

VARIABLES
    alpha, n, density_exp, field_min, mesh_dimension, mesh_symmetry,
    sym_factor, setup_work,
    relaxation_parameter, tol_du, maxiter,
    field, field_grad_mag, residual, laplacian, potential_derivative,
    field_grad, p_field,
    stack, i, du_norm,
    function, gradient_vector, origin, radial_limit, displacement,
    radius_distence, v, values, returned,
    boundary_distance, tol, fifth_force_max, probe_point, distance, ff,
    visited, measured, result,
    field_version, outcome, call, pre, lin_solves, reads, iterates, solves,
    computed,
    directory, last_run,
    points_list, points_new,
    fragment_map, new_shapes, to_remove, raised,
    entities, boundary_entities, next_tag, source, boundaries,
    refinement_settings, source_number, boundary_number

config == <<alpha, n, density_exp, field_min, mesh_dimension, mesh_symmetry,
            sym_factor, setup_work, relaxation_parameter, tol_du, maxiter>>
probe == <<function, gradient_vector, origin, radial_limit, displacement,
           radius_distence, v, values, returned>>
slots == <<field_grad_mag, residual, laplacian, potential_derivative,
           field_grad, p_field>>
locals == <<i, du_norm>>
scan == <<boundary_distance, tol, fifth_force_max, probe_point, distance, ff,
          visited, measured, result>>
ghost == <<outcome, call, pre, lin_solves, reads, iterates, solves, computed>>
files == <<directory, last_run>>
meshing == <<points_list, points_new, fragment_map, new_shapes, to_remove,
             raised, entities, boundary_entities, next_tag, source,
             boundaries, refinement_settings, source_number, boundary_number>>
\* What the methods of a FieldSolver other than save and load leave alone.
aside == <<files, meshing>>
vars == <<config, field, field_version, slots, stack, locals, probe, scan,
          ghost, aside>>

\* ----------------------------------------------------------- __init__
\* pow(self.density_max, -1/(self.n+1)) for density_max = 2^(-e)
FieldMin(e, nn) == 2 ^ (e \div (nn + 1))

Snapshot == [field |-> field, field_version |-> field_version,
             field_grad_mag |-> field_grad_mag,
             residual |-> residual, laplacian |-> laplacian,
             potential_derivative |-> potential_derivative,
             field_grad |-> field_grad, p_field |-> p_field]
NoSnapshot == [field |-> None, field_version |-> 0,
               field_grad_mag |-> None, residual |-> None,
               laplacian |-> None, potential_derivative |-> None,
               field_grad |-> None, p_field |-> None]

\* No call of measure_fifth_force is under way.
NoScan ==
    /\ boundary_distance = 0
    /\ tol = 0
    /\ fifth_force_max = 0
    /\ probe_point = None
    /\ distance = 0
    /\ ff = 0
    /\ visited = 0
    /\ measured = <<>>
    /\ result = None

ResetScan ==
    /\ boundary_distance' = 0
    /\ tol' = 0
    /\ fifth_force_max' = 0
    /\ probe_point' = None
    /\ distance' = 0
    /\ ff' = 0
    /\ visited' = 0
    /\ measured' = <<>>
    /\ result' = None

\* What the attributes other than the configuration are when no call is
\* under way and no field has been computed.
Idle ==
    /\ field = None
    /\ field_version = 0
    /\ field_grad_mag = None
    /\ residual = None
    /\ laplacian = None
    /\ potential_derivative = None
    /\ field_grad = None
    /\ p_field = None
    /\ stack = <<>>
    /\ i = 0
    /\ du_norm = 0
    /\ function = 0
    /\ gradient_vector = <<>>
    /\ origin = <<>>
    /\ radial_limit = 0
    /\ displacement = 0
    /\ radius_distence = 0
    /\ v = <<>>
    /\ values = <<>>
    /\ returned = "nothing"
    /\ NoScan
    /\ outcome = "ok"
    /\ call = "none"
    /\ pre = NoSnapshot
    /\ lin_solves = 0
    /\ reads = {}
    /\ iterates = <<>>
    /\ solves = <<>>
    /\ computed = <<>>

\* The files save writes and load reads, by the attribute each holds.
Artifacts == {"field", "field_grad_mag", "residual", "laplacian",
              "potential_derivative", "field_grad", "p_field"}

\* The directory 'Saved Solutions/filename' does not exist.
NoDirectory == [exists |-> FALSE, files |-> [a \in Artifacts |-> None]]

\* Nothing has been saved and no solve has been recorded.
NoFiles ==
    /\ directory = NoDirectory
    /\ last_run = None

\* No MeshingTools object is in use.
NoTools ==
    /\ points_list = <<>>
    /\ points_new = <<>>
    /\ fragment_map = <<>>
    /\ new_shapes = <<>>
    /\ to_remove = <<>>
    /\ raised = "nothing"
    /\ entities = <<>>
    /\ boundary_entities = <<>>
    /\ next_tag = 1
    /\ source = <<>>
    /\ boundaries = <<>>
    /\ refinement_settings = <<>>
    /\ source_number = 0
    /\ boundary_number = 0

\* The symmetry tags a 2-D mesh is accepted with.
VerticalAxis == "vertical axis-symmetry"
HorizontalAxis == "horizontal axis-symmetry"
CylinderSlice == "cylinder slice"

\* A solver constructed on a 2-D cylinder slice.  tol_du of __init__ is
\* below every norm the backend answers but 0, and maxiter of __init__ is
\* the largest number of passes followed.
Init ==
    /\ alpha = 1
    /\ n \in NVals
    /\ density_exp = DensityExp
    /\ field_min = FieldMin(density_exp, n)
    /\ mesh_dimension = 2
    /\ mesh_symmetry = CylinderSlice
    /\ sym_factor = Some("1")
    /\ setup_work = <<"interpolate", "assemble">>
    /\ relaxation_parameter = DefaultRelaxation
    /\ tol_du = 0
    /\ maxiter = MaxIter
    /\ Idle
    /\ NoFiles
    /\ NoTools

\* ------------------------------------------------------ frames and calls
Top == stack[1]
Running(f) == stack # <<>> /\ Top = f
Pop == stack' = Tail(stack)
Push(f) == stack' = <<f>> \o stack
Goto(f) == stack' = <<f>> \o Tail(stack)
\* an exception no method catches: every frame is left
Raise(e) == stack' = <<"return">> /\ outcome' = e

\* A call from outside, of the method or frames `fs`, named `op`.
Enter(op, fs) ==
    /\ stack = <<>>
    /\ stack' = fs \o <<"return">>
    /\ call' = op
    /\ pre' = Snapshot
    /\ lin_solves' = 0
    /\ reads' = {}
    /\ iterates' = <<>>
    /\ solves' = <<>>
    /\ computed' = <<>>
    /\ outcome' = "ok"
    /\ UNCHANGED <<config, probe, scan, field, field_version, slots, locals,
                   aside>>

\* The call is over and its caller goes on.
Return ==
    /\ Running("return")
    /\ stack' = <<>>
    /\ call' = "none"
    /\ pre' = NoSnapshot
    /\ lin_solves' = 0
    /\ reads' = {}
    /\ iterates' = <<>>
    /\ solves' = <<>>
    /\ computed' = <<>>
    /\ outcome' = "ok"
    /\ i' = 0
    /\ du_norm' = 0
    /\ ResetScan
    /\ UNCHANGED <<config, probe, field, field_version, slots, aside>>

\* An assignment to one of the directly settable solver parameters.
SetParameter ==
    /\ stack = <<>>
    /\ \/ /\ relaxation_parameter' \in RelaxationVals \ {relaxation_parameter}
          /\ UNCHANGED <<n, tol_du, maxiter>>
       \/ /\ tol_du' \in TolVals \ {tol_du}
          /\ UNCHANGED <<n, relaxation_parameter, maxiter>>
       \/ /\ maxiter' \in IterVals \ {maxiter}
          /\ UNCHANGED <<n, relaxation_parameter, tol_du>>
       \/ /\ n' \in SettableN \ {n}
          /\ UNCHANGED <<relaxation_parameter, tol_du, maxiter>>
    /\ UNCHANGED <<alpha, density_exp, field_min, mesh_dimension,
                   mesh_symmetry, sym_factor, setup_work, scan, field,
                   field_version, slots, stack, locals, probe, ghost,
                   aside>>

\* ----------------------------------------------------------- __init__
\* The arguments FieldSolver is constructed with.
Alphas == (0 - 1)..1
ConstructN == (0 - 1)..1
Dimensions == {2, 3}
Tags == {VerticalAxis, HorizontalAxis, CylinderSlice, "none", "spherical"}

\* No solver has been constructed.
NoObject ==
    /\ alpha = 0
    /\ n = 0
    /\ density_exp = DensityExp
    /\ field_min = 0
    /\ mesh_dimension = 0
    /\ mesh_symmetry = ""
    /\ sym_factor = None
    /\ setup_work = <<>>
    /\ relaxation_parameter = 0
    /\ tol_du = 0
    /\ maxiter = 0

Unbuilt == NoObject /\ Idle /\ NoFiles /\ NoTools

\* What a step of __init__ leaves alone besides the configuration.
InitFrame ==
    UNCHANGED <<density_exp, scan, field, field_version, slots, locals, probe,
                call, pre, computed, lin_solves, reads, iterates, solves,
                aside>>

\* FieldSolver(alpha, n, density_profile): the mandatory inputs and the
\* information taken from density_profile
FieldSolver ==
    /\ stack = <<>>
    /\ call = "none"
    /\ stack' = <<"init_symmetry", "return">>
    /\ call' = "FieldSolver"
    /\ alpha' \in Alphas
    /\ n' \in ConstructN
    /\ mesh_dimension' \in Dimensions
    /\ mesh_symmetry' \in Tags
    /\ UNCHANGED <<density_exp, field_min, sym_factor, setup_work,
                   relaxation_parameter, tol_du, maxiter, scan, field,
                   field_version, slots, locals, probe, outcome, pre,
                   computed, lin_solves, reads, iterates, solves,
                   computed, aside>>

\* A test of the symmetry that does not look at the dimension.
init_symmetry_any_dimension ==
    /\ Running("init_symmetry")
    /\ IF mesh_symmetry \in {VerticalAxis, HorizontalAxis, CylinderSlice}
       THEN /\ sym_factor' =
                  Some(CASE mesh_symmetry = VerticalAxis -> "abs(x[0])"
                         [] mesh_symmetry = HorizontalAxis -> "abs(x[1])"
                         [] OTHER -> "1")
            /\ Goto("init_spaces")
            /\ UNCHANGED outcome
       ELSE /\ Raise("SystemExit")
            /\ UNCHANGED sym_factor
    /\ UNCHANGED <<alpha, n, field_min, mesh_dimension, mesh_symmetry,
                   setup_work, relaxation_parameter, tol_du, maxiter>>
    /\ InitFrame

\* if self.mesh_dimension == 2: ... elif self.mesh_dimension == 3: ...
init_symmetry ==
    /\ Running("init_symmetry")
    /\ IF mesh_dimension = 2
       THEN IF mesh_symmetry \in {VerticalAxis, HorizontalAxis,
                                  CylinderSlice}
            THEN /\ sym_factor' =
                       Some(CASE mesh_symmetry = VerticalAxis -> "abs(x[0])"
                              [] mesh_symmetry = HorizontalAxis -> "abs(x[1])"
                              [] OTHER -> "1")
                 /\ Goto("init_spaces")
                 /\ UNCHANGED outcome
            ELSE /\ Raise("SystemExit")
                 /\ UNCHANGED sym_factor
       ELSE /\ sym_factor' = IF mesh_dimension = 3 THEN Some("1")
                             ELSE sym_factor
            /\ Goto("init_spaces")
            /\ UNCHANGED outcome
    /\ UNCHANGED <<alpha, n, field_min, mesh_dimension, mesh_symmetry,
                   setup_work, relaxation_parameter, tol_du, maxiter>>
    /\ InitFrame

\* The function spaces, the interpolation of the density, density_max and
\* field_min = pow(self.density_max, -1/(self.n+1)), where -1/(self.n+1)
\* raises for n = -1.
init_spaces ==
    /\ Running("init_spaces")
    /\ setup_work' = Append(setup_work, "interpolate")
    /\ IF n + 1 = 0
       THEN /\ Raise("ZeroDivisionError")
            /\ UNCHANGED field_min
       ELSE /\ field_min' = FieldMin(density_exp, n)
            /\ Goto("init_fields")
            /\ UNCHANGED outcome
    /\ UNCHANGED <<alpha, n, mesh_dimension, mesh_symmetry, sym_factor,
                   relaxation_parameter, tol_du, maxiter>>
    /\ InitFrame

\* The fields are None, P and A are assembled and the solver parameters get
\* their defaults.
init_fields ==
    /\ Running("init_fields")
    /\ setup_work' = Append(setup_work, "assemble")
    /\ relaxation_parameter' = DefaultRelaxation
    /\ tol_du' = 0
    /\ maxiter' = MaxIter
    /\ Pop
    /\ UNCHANGED <<alpha, n, field_min, mesh_dimension, mesh_symmetry,
                   sym_factor, outcome>>
    /\ InitFrame

\* The constructed solver, or the exception, is with the caller; the next
\* construction is of another object.
Constructed ==
    /\ Running("return")
    /\ call = "FieldSolver"
    /\ stack' = <<>>
    /\ call' = "none"
    /\ outcome' = "ok"
    /\ alpha' = 0
    /\ n' = 0
    /\ field_min' = 0
    /\ mesh_dimension' = 0
    /\ mesh_symmetry' = ""
    /\ sym_factor' = None
    /\ setup_work' = <<>>
    /\ relaxation_parameter' = 0
    /\ tol_du' = 0
    /\ maxiter' = 0
    /\ UNCHANGED <<density_exp, scan, field, field_version, slots, locals,
                   probe, pre, computed, lin_solves, reads, iterates,
                   solves, aside>>

\* ------------------------------------------------------------ backend
\* What solver.solve(...) of an outer iteration answers: the distance of
\* the solution from the current field, or an exception.
Answers == [ok : {TRUE}, du : DuVals] \cup {[ok |-> FALSE, du |-> 0]}

\* ------------------------------------------------------ picard, newton
\* A loop test that allows one pass more.
LoopTestInclusive == du_norm > tol_du /\ i <= maxiter

\* while du_norm > self.tol_du and i < self.maxiter
LoopTest == du_norm > tol_du /\ i < maxiter

\* An entry that seeds the norm with 0.
SolveEntryUnseeded(m, loop) ==
    /\ Running(m)
    /\ field' = Some(field_min)
    /\ field_version' = field_version + 1
    /\ i' = 0
    /\ du_norm' = 0
    /\ iterates' = <<>>
    /\ solves' = Append(solves, m)
    /\ Goto(loop)
    /\ UNCHANGED <<config, probe, scan, slots, outcome, call, pre, computed,
                   lin_solves, reads, aside>>

\* An entry that keeps a field that is already set.
SolveEntryWarmStart(m, loop) ==
    /\ Running(m)
    /\ field' = IF field = None THEN Some(field_min) ELSE field
    /\ field_version' = field_version + 1
    /\ i' = 0
    /\ du_norm' = DuNormSeed
    /\ iterates' = <<>>
    /\ solves' = Append(solves, m)
    /\ Goto(loop)
    /\ UNCHANGED <<config, probe, scan, slots, outcome, call, pre, computed,
                   lin_solves, reads, aside>>

\* self.field = d.interpolate(d.Constant(self.field_min), self.V); i = 0;
\* du_norm = 1
SolveEntry(m, loop) ==
    /\ Running(m)
    /\ field' = Some(field_min)
    /\ field_version' = field_version + 1
    /\ i' = 0
    /\ du_norm' = DuNormSeed
    /\ iterates' = <<>>
    /\ solves' = Append(solves, m)
    /\ Goto(loop)
    /\ UNCHANGED <<config, probe, scan, slots, outcome, call, pre, computed,
                   lin_solves, reads, aside>>

\* A blend that takes the solution of the pass as it is.
PicardUpdateUnrelaxed(u, f) == u

\* self.field.assign(self.relaxation_parameter*u +
\*                   (1 - self.relaxation_parameter)*self.field)
PicardUpdate(u, f) ==
    relaxation_parameter * u + (1 - relaxation_parameter) * f

\* self.field.vector()[:] += self.relaxation_parameter*du.vector()
NewtonUpdate(du, f) == f + relaxation_parameter * du

\* d.norm(du.vector(), 'linf')
LinfNorm(du) == Abs(du)

\* A pass that also discards the stored residual.
IteratedClearing(new_field, du) ==
    /\ i' = i + 1
    /\ field' = Some(new_field)
    /\ du_norm' = LinfNorm(du)
    /\ iterates' = Append(iterates, [field |-> new_field,
                                     du_norm |-> LinfNorm(du)])
    /\ lin_solves' = lin_solves + 1
    /\ residual' = None
    /\ UNCHANGED <<config, probe, scan, field_version, field_grad_mag,
                   laplacian, potential_derivative, field_grad,
                   p_field, stack, outcome, call, pre, computed, reads,
                   solves, aside>>

\* One pass of the loop body whose linear solve returned.
Iterated(new_field, du) ==
    /\ i' = i + 1
    /\ field' = Some(new_field)
    /\ du_norm' = LinfNorm(du)
    /\ iterates' = Append(iterates, [field |-> new_field,
                                     du_norm |-> LinfNorm(du)])
    /\ lin_solves' = lin_solves + 1
    /\ UNCHANGED <<config, probe, scan, field_version, slots, stack, outcome,
                   call, pre, computed, reads, solves, aside>>

\* One pass whose linear solve raised: the exception leaves the method and
\* its callers, with self.field as the passes before left it.
SolveFailed ==
    /\ i' = i + 1
    /\ Raise("LinearSolveFailure")
    /\ lin_solves' = lin_solves + 1
    /\ UNCHANGED <<config, probe, scan, field, field_version, slots, du_norm,
                   call, pre, computed, reads, iterates, solves,
                   aside>>

picard == SolveEntry("picard", "picard_loop")

PicardIterate ==
    /\ Running("picard_loop")
    /\ LoopTest
    /\ \E r \in Answers :
        /\ r.ok
        /\ LET u == Val(field) + r.du
               du == u - Val(field)
           IN  Iterated(PicardUpdate(u, Val(field)), du)

PicardFail ==
    /\ Running("picard_loop")
    /\ LoopTest
    /\ \E r \in Answers : ~r.ok
    /\ SolveFailed

\* A return that raises when the norm is still above the tolerance.
SolveReturnRaising(loop) ==
    /\ Running(loop)
    /\ ~LoopTest
    /\ IF du_norm > tol_du
       THEN Raise("NotConverged")
       ELSE Pop /\ UNCHANGED outcome
    /\ UNCHANGED <<config, probe, scan, field, field_version, slots, locals,
                   call, pre, computed, lin_solves, reads, iterates,
                   solves, aside>>

SolveReturn(loop) ==
    /\ Running(loop)
    /\ ~LoopTest
    /\ Pop
    /\ UNCHANGED <<config, probe, scan, field, field_version, slots, locals,
                   ghost, aside>>

PicardReturn == SolveReturn("picard_loop")

newton == SolveEntry("newton", "newton_loop")

NewtonIterate ==
    /\ Running("newton_loop")
    /\ LoopTest
    /\ \E r \in Answers :
        /\ r.ok
        /\ Iterated(NewtonUpdate(r.du, Val(field)), r.du)

NewtonFail ==
    /\ Running("newton_loop")
    /\ LoopTest
    /\ \E r \in Answers : ~r.ok
    /\ SolveFailed

NewtonReturn == SolveReturn("newton_loop")

\* ------------------------------------- picard, newton: uniform density
\* The density is rho0 = 2^(-density_exp) everywhere and the field is
\* uniform, so the stiffness term A0 gives nothing and each linear system is
\* one equation, the same at every node.  Both sides are multiplied by
\* field^(n+2) * 2^density_exp; a quotient that is not a whole number is
\* rounded down to the grid the values are carried on.
\*
\* (n+1)*field^(-n-2) * u = (n+2)*field^(-n-1) - rho0
PicardSolve(f) ==
    ((n + 2) * f * 2 ^ density_exp - f ^ (n + 2))
        \div ((n + 1) * 2 ^ density_exp)

\* (n+1)*field^(-n-2) * du = field^(-n-1) - rho0
NewtonSolve(f) ==
    (f * 2 ^ density_exp - f ^ (n + 2)) \div ((n + 1) * 2 ^ density_exp)

\* One pass of picard with the linear system solved exactly.
PicardExact ==
    /\ Running("picard_loop")
    /\ LoopTest
    /\ Val(field) # 0
    /\ LET u == PicardSolve(Val(field))
           du == u - Val(field)
       IN  Iterated(PicardUpdate(u, Val(field)), du)

\* One pass of newton with the linear system solved exactly.
NewtonExact ==
    /\ Running("newton_loop")
    /\ LoopTest
    /\ Val(field) # 0
    /\ LET du == NewtonSolve(Val(field))
       IN  Iterated(NewtonUpdate(du, Val(field)), du)

\* What a solve was run with and what it gave.
Run == [mode |-> call, n |-> n, field_min |-> field_min,
        relaxation_parameter |-> relaxation_parameter, tol_du |-> tol_du,
        maxiter |-> maxiter, iterates |-> iterates, field |-> field]

\* The solve is over and its caller goes on; what it gave is kept for the
\* solve that follows.
SolveDone ==
    /\ Running("return")
    /\ call \in Modes
    /\ last_run' = Some(Run)
    /\ stack' = <<>>
    /\ call' = "none"
    /\ pre' = NoSnapshot
    /\ lin_solves' = 0
    /\ reads' = {}
    /\ iterates' = <<>>
    /\ solves' = <<>>
    /\ computed' = <<>>
    /\ outcome' = "ok"
    /\ i' = 0
    /\ du_norm' = 0
    /\ UNCHANGED <<config, probe, scan, field, field_version, slots,
                   directory, meshing>>

\* The fields a solve is taken to end with where its passes are not
\* followed.
SolveResults == {field_min, field_min + 1}

\* picard or newton in one step, by what it comes to: the field of the last
\* pass, or the exception of a linear solve with the field of the passes
\* before it.
SolveOutcome(m) ==
    /\ Running(m)
    /\ \E f \in SolveResults, ok \in BOOLEAN :
          /\ field' = Some(f)
          /\ IF ok THEN Pop /\ UNCHANGED outcome
                   ELSE Raise("LinearSolveFailure")
    /\ field_version' = field_version + 1
    /\ solves' = Append(solves, m)
    /\ lin_solves' = lin_solves + 1
    /\ UNCHANGED <<config, probe, scan, slots, locals, call, pre, reads,
                   iterates, computed, aside>>

PicardOutcome == SolveOutcome("picard")

\* s.picard() or s.newton(), called from outside
CallSolve ==
    /\ field_version < MaxSolves
    /\ \E m \in Modes : Enter(m, <<m>>)

\* ------------------------------------------------- derived quantities
\* A method calls another and goes on after it: the frame of the caller
\* stays below the callee's and runs its next test when the callee is done.
Delegate(f) ==
    /\ Push(f)
    /\ UNCHANGED <<config, probe, scan, field, field_version, slots, locals,
                   ghost, aside>>

\* solver.solve(A, <slot>.vector(), b); return None
Solved ==
    /\ lin_solves' = lin_solves + 1
    /\ Pop
    /\ UNCHANGED <<config, probe, scan, field, field_version, locals, outcome,
                   call, pre, reads, iterates, solves,
                   aside>>

\* The versions of the field a slot's value was assembled from.
GradSources == IF field_grad = None THEN {} ELSE {Val(field_grad)}
Sources(slot) ==
    CASE slot = "field_grad_mag" -> {Val(field_grad_mag)}
      [] slot = "residual" -> {Val(residual)[1], Val(residual)[2]}
      [] slot = "laplacian" -> {Val(laplacian)}
      [] slot = "potential_derivative" -> {Val(potential_derivative)}
      [] slot = "field_grad" -> {Val(field_grad)}
      [] slot = "p_field" -> {}

calc_field_grad_vector ==
    /\ Running("calc_field_grad_vector")
    /\ \/ /\ field = None
          /\ Delegate("picard")
       \/ /\ field # None
          /\ field_grad' = Some(field_version)
          /\ Solved
          /\ computed' = Append(computed, "field_grad")
          /\ UNCHANGED <<field_grad_mag, residual, laplacian,
                         potential_derivative, p_field>>

\* A calc_field_grad_mag that keeps a value it has already stored.
calc_field_grad_mag_stored ==
    /\ Running("calc_field_grad_mag")
    /\ \/ /\ field = None
          /\ Delegate("picard")
       \/ /\ field # None
          /\ field_grad_mag # None
          /\ Pop
          /\ UNCHANGED <<config, probe, scan, field, field_version, slots,
                         locals, ghost, aside>>
       \/ /\ field # None
          /\ field_grad_mag = None
          /\ field_grad_mag' = Some(field_version)
          /\ Solved
          /\ computed' = Append(computed, "field_grad_mag")
          /\ UNCHANGED <<residual, laplacian, potential_derivative,
                         field_grad, p_field>>

calc_field_grad_mag ==
    /\ Running("calc_field_grad_mag")
    /\ \/ /\ field = None
          /\ Delegate("picard")
       \/ /\ field # None
          /\ field_grad_mag' = Some(field_version)
          /\ Solved
          /\ computed' = Append(computed, "field_grad_mag")
          /\ UNCHANGED <<residual, laplacian, potential_derivative,
                         field_grad, p_field>>

calc_field_residual ==
    /\ Running("calc_field_residual")
    /\ \/ /\ field = None
          /\ Delegate("picard")
       \/ /\ field # None
          /\ field_grad = None
          /\ Delegate("calc_field_grad_vector")
       \/ /\ field # None
          /\ field_grad # None
          /\ residual' = Some(<<field_version, Val(field_grad)>>)
          /\ Solved
          /\ computed' = Append(computed, "residual")
          /\ UNCHANGED <<field_grad_mag, laplacian, potential_derivative,
                         field_grad, p_field>>

calc_laplacian ==
    /\ Running("calc_laplacian")
    /\ \/ /\ field_grad = None
          /\ Delegate("calc_field_grad_vector")
       \/ /\ field_grad # None
          /\ laplacian' = Some(Val(field_grad))
          /\ Solved
          /\ computed' = Append(computed, "laplacian")
          /\ UNCHANGED <<field_grad_mag, residual, potential_derivative,
                         field_grad, p_field>>

\* A calc_density_field that solves first when the field is unset.
calc_density_field_solving ==
    /\ Running("calc_density_field")
    /\ \/ /\ field = None
          /\ Delegate("picard")
       \/ /\ field # None
          /\ p_field' = Some(density_exp)
          /\ computed' = Append(computed, "p_field")
          /\ Pop
          /\ UNCHANGED <<config, probe, scan, field, field_version,
                         field_grad_mag, residual, laplacian,
                         potential_derivative, field_grad, locals, outcome,
                         call, pre, lin_solves, reads, iterates, solves,
                         aside>>

\* self.p_field = d.interpolate(self.p, self.V)
calc_density_field ==
    /\ Running("calc_density_field")
    /\ p_field' = Some(density_exp)
    /\ computed' = Append(computed, "p_field")
    /\ Pop
    /\ UNCHANGED <<config, probe, scan, field, field_version,
                   field_grad_mag, residual, laplacian,
                   potential_derivative, field_grad, locals, outcome,
                   call, pre, lin_solves, reads, iterates, solves,
                   aside>>

\* A calc_potential_derivative that solves whether or not the field is set.
calc_potential_derivative_solving ==
    /\ Running("calc_potential_derivative")
    /\ \/ /\ solves = <<>>
          /\ Delegate("picard")
       \/ /\ solves # <<>>
          /\ potential_derivative' = Some(field_version)
          /\ Solved
          /\ computed' = Append(computed, "potential_derivative")
          /\ UNCHANGED <<field_grad_mag, residual, laplacian, field_grad,
                         p_field>>

calc_potential_derivative ==
    /\ Running("calc_potential_derivative")
    /\ \/ /\ field = None
          /\ Delegate("picard")
       \/ /\ field # None
          /\ potential_derivative' = Some(field_version)
          /\ Solved
          /\ computed' = Append(computed, "potential_derivative")
          /\ UNCHANGED <<field_grad_mag, residual, laplacian, field_grad,
                         p_field>>

CallCalc == \E op \in CalcOps : Enter(op, <<op>>)

\* ---------------------------------------------------------- consumers
\* A slot is evaluated or drawn: what was read, and the field's version then.
Read(slot) == [slot |-> slot, sources |-> Sources(slot),
               field_version |-> field_version]

\* if self.field_grad_mag is None: self.calc_field_grad_mag()
measure_fifth_force ==
    /\ Running("measure_fifth_force")
    /\ \/ /\ field_grad_mag = None
          /\ Delegate("calc_field_grad_mag")
       \/ /\ field_grad_mag # None
          /\ Goto("measure_try")
          /\ UNCHANGED <<config, probe, scan, field, field_version, slots,
                         locals, ghost, aside>>

\* The two exceptions of measure_fifth_force are of the class Exception and
\* differ in their message.
BadSubdomain == "Exception: Check Your subdomain index is correct"
NoVertexFound == "Exception: No vertex found"

\* What the scan of the sub-mesh's vertices comes to.
Scans == {"bad_subdomain", "empty_band", "none_positive", "found"}

\* The rest of measure_fifth_force in one step, by what it comes to: where
\* the sub-mesh and the arguments are not followed.
MeasureOutcome ==
    /\ Running("measure_try")
    /\ \E sc \in Scans :
          /\ reads' = IF sc \in {"none_positive", "found"}
                      THEN reads \cup {Read("field_grad_mag")}
                      ELSE reads
          /\ CASE sc = "found" -> Pop /\ UNCHANGED outcome
               [] sc = "bad_subdomain" -> Raise(BadSubdomain)
               [] OTHER -> Raise(NoVertexFound)
    /\ UNCHANGED <<config, probe, scan, field, field_version, slots, locals,
                   call, pre, computed, lin_solves, iterates, solves,
                   aside>>

\* ---------------------------------- measure_fifth_force, vertex by vertex
\* Distances are carried in units in which tol/2 and the distances of the
\* vertices are integers.
Distances == 0..MaxDistance
BandTols == {0, 2}
\* the values self.field_grad_mag takes at vertices: a magnitude
FFVals == 0..MaxFF

\* A test of the band that takes in its lower end.
InBandFromBelow(d, bd, t) == d >= bd - t \div 2 /\ d < bd + t \div 2

\* distance > boundary_distance - tol/2 and
\* distance < boundary_distance + tol/2
InBand(d, bd, t) == d > bd - t \div 2 /\ d < bd + t \div 2

\* s.measure_fifth_force(subdomain, boundary_distance, tol), called from
\* outside
CallMeasure ==
    /\ stack = <<>>
    /\ stack' = <<"measure_fifth_force", "return">>
    /\ boundary_distance' \in Distances
    /\ tol' \in BandTols
    /\ call' = "measure_fifth_force"
    /\ pre' = Snapshot
    /\ lin_solves' = 0
    /\ reads' = {}
    /\ iterates' = <<>>
    /\ solves' = <<>>
    /\ computed' = <<>>
    /\ outcome' = "ok"
    /\ UNCHANGED <<config, probe, field, field_version, slots, locals,
                   fifth_force_max, probe_point, distance, ff, visited,
                   measured, result, aside>>

\* The try block: the backend builds the sub-mesh, its boundary and the
\* tree, or raises; then fifth_force_max = 0.0 and probe_point = None.
measure_try ==
    /\ Running("measure_try")
    /\ \/ /\ Raise(BadSubdomain)
          /\ UNCHANGED <<fifth_force_max, probe_point>>
       \/ /\ fifth_force_max' = 0
          /\ probe_point' = None
          /\ Goto("measure_loop")
          /\ UNCHANGED outcome
    /\ UNCHANGED <<config, probe, field, field_version, slots, locals,
                   boundary_distance, tol, distance, ff, visited,
                   measured, result, call, pre, computed, lin_solves,
                   reads, iterates, solves, aside>>

\* One pass of `for v in d.vertices(measuring_mesh)`: the next vertex, its
\* distance from the boundary and, if it is in the band, the value of
\* self.field_grad_mag at it.  `measured` holds the vertices the value was
\* taken at.
measure_vertex ==
    /\ Running("measure_loop")
    /\ visited < MaxVertices
    /\ visited' = visited + 1
    /\ \E d \in Distances :
          /\ distance' = d
          /\ IF InBand(d, boundary_distance, tol)
             THEN \E f \in FFVals :
                     /\ ff' = f
                     /\ measured' = Append(measured,
                                           [vertex |-> visited + 1, ff |-> f])
                     /\ reads' = reads \cup {Read("field_grad_mag")}
                     /\ IF f > fifth_force_max
                        THEN /\ fifth_force_max' = f
                             /\ probe_point' = Some(visited + 1)
                        ELSE UNCHANGED <<fifth_force_max, probe_point>>
             ELSE UNCHANGED <<ff, measured, reads, fifth_force_max,
                              probe_point>>
    /\ UNCHANGED <<config, probe, field, field_version, slots, stack, locals,
                   boundary_distance, tol, result, outcome, call, pre,
                   computed, lin_solves, iterates, solves, aside>>

\* After the last vertex: the exception, or the maximum and its vertex.
measure_return ==
    /\ Running("measure_loop")
    /\ IF probe_point = None
       THEN Raise(NoVertexFound) /\ UNCHANGED result
       ELSE /\ result' = Some(<<fifth_force_max, Val(probe_point)>>)
            /\ Pop
            /\ UNCHANGED outcome
    /\ UNCHANGED <<config, probe, field, field_version, slots, locals,
                   boundary_distance, tol, fifth_force_max,
                   probe_point, distance, ff, visited, measured, call,
                   pre, computed, lin_solves, reads, iterates, solves,
                   computed, aside>>

\* One section of plot_results: if <scale> is not None, the slot is
\* computed if it is None and then drawn.
PlotSection(frame, slot, unset, calc) ==
    /\ Running(frame)
    /\ \/ /\ unset
          /\ Delegate(calc)
       \/ /\ ~unset
          /\ reads' = reads \cup {Read(slot)}
          /\ Pop
          /\ UNCHANGED <<config, probe, scan, field, field_version, slots,
                         locals, outcome, call, pre, computed,
                         lin_solves, iterates, solves, aside>>

plot_grad == PlotSection("plot_grad", "field_grad_mag",
                         field_grad_mag = None, "calc_field_grad_mag")
plot_res == PlotSection("plot_res", "residual",
                        residual = None, "calc_field_residual")
plot_lapl == PlotSection("plot_lapl", "laplacian",
                         laplacian = None, "calc_laplacian")
plot_dpot == PlotSection("plot_dpot", "potential_derivative",
                         potential_derivative = None,
                         "calc_potential_derivative")
plot_density == PlotSection("plot_density", "p_field",
                            p_field = None, "calc_density_field")

PlotParts == <<"plot_grad", "plot_res", "plot_lapl", "plot_dpot",
               "plot_density">>
Chosen(S) == SelectSeq(PlotParts, LAMBDA p : p \in S)

\* A plot_residual_slice that computes the laplacian whether or not it is
\* set.
plot_residual_slice_eager ==
    /\ Running("plot_residual_slice")
    /\ \/ /\ residual = None
          /\ Delegate("calc_field_residual")
       \/ /\ residual # None
          /\ \A k \in 1..Len(computed) : computed[k] # "laplacian"
          /\ Delegate("calc_laplacian")
       \/ /\ residual # None
          /\ \E k \in 1..Len(computed) : computed[k] = "laplacian"
          /\ potential_derivative = None
          /\ Delegate("calc_potential_derivative")
       \/ /\ residual # None
          /\ \E k \in 1..Len(computed) : computed[k] = "laplacian"
          /\ potential_derivative # None
          /\ p_field = None
          /\ Delegate("calc_density_field")
       \/ /\ residual # None
          /\ \E k \in 1..Len(computed) : computed[k] = "laplacian"
          /\ potential_derivative # None
          /\ p_field # None
          /\ reads' = reads \cup {Read("residual"), Read("laplacian"),
                                  Read("potential_derivative"),
                                  Read("p_field")}
          /\ Pop
          /\ UNCHANGED <<config, probe, scan, field, field_version, slots,
                         locals, outcome, call, pre, computed, lin_solves,
                         iterates, solves, aside>>

plot_residual_slice ==
    /\ Running("plot_residual_slice")
    /\ \/ /\ residual = None
          /\ Delegate("calc_field_residual")
       \/ /\ residual # None
          /\ laplacian = None
          /\ Delegate("calc_laplacian")
       \/ /\ residual # None
          /\ laplacian # None
          /\ potential_derivative = None
          /\ Delegate("calc_potential_derivative")
       \/ /\ residual # None
          /\ laplacian # None
          /\ potential_derivative # None
          /\ p_field = None
          /\ Delegate("calc_density_field")
       \/ /\ residual # None
          /\ laplacian # None
          /\ potential_derivative # None
          /\ p_field # None
          /\ reads' = reads \cup {Read("residual"), Read("laplacian"),
                                  Read("potential_derivative"),
                                  Read("p_field")}
          /\ Pop
          /\ UNCHANGED <<config, probe, scan, field, field_version, slots,
                         locals, outcome, call, pre, computed,
                         lin_solves, iterates, solves, aside>>

\* plot_results is called with one scale given, or with all of them.
PlotCalls == {{PlotParts[k]} : k \in 1..Len(PlotParts)}
                 \cup {{PlotParts[k] : k \in 1..Len(PlotParts)}}

CallConsumer ==
    \/ Enter("measure_fifth_force", <<"measure_fifth_force">>)
    \/ \E S \in PlotCalls : Enter("plot_results", Chosen(S))
    \/ Enter("plot_residual_slice", <<"plot_residual_slice">>)

\* ---------------------------------------------------------- save, load
\* What f.write(self.<attribute>, ...) stores: the attribute, and for the
\* field the solve it is of.
Stored(a) ==
    CASE a = "field" ->
             IF field = None THEN None
             ELSE Some([value |-> Val(field), version |-> field_version])
      [] a = "field_grad_mag" -> field_grad_mag
      [] a = "residual" -> residual
      [] a = "laplacian" -> laplacian
      [] a = "potential_derivative" -> potential_derivative
      [] a = "field_grad" -> field_grad
      [] a = "p_field" -> p_field

\* What the user answers at 'Overwrite files inside this directory? (y/n) '.
Answered == {"y", "n", "other"}

\* os.makedirs(path), the question when the directory exists and
\* auto_override is False, and one file written for each attribute that is
\* not None
save ==
    /\ Running("save")
    /\ \E auto_override \in BOOLEAN, ans \in Answered :
          IF directory.exists /\ ~auto_override /\ ans # "y"
          THEN /\ Raise("SystemExit")
               /\ UNCHANGED directory
          ELSE /\ directory' =
                      [exists |-> TRUE,
                       files |-> [a \in Artifacts |->
                                     IF Stored(a) # None THEN Stored(a)
                                     ELSE directory.files[a]]]
               /\ Pop
               /\ UNCHANGED outcome
    /\ UNCHANGED <<config, probe, scan, field, field_version, slots, locals,
                   call, pre, lin_solves, reads, iterates, solves, computed,
                   last_run, meshing>>

\* The attribute a file gives when it exists, else what the attribute is.
Loaded(a, now) ==
    IF directory.files[a] # None THEN directory.files[a] ELSE now

\* if os.path.exists(path + "/<attribute>.h5"): f.read(...), for each of
\* the seven attributes
load ==
    /\ Running("load")
    /\ field' = IF directory.files["field"] # None
                THEN Some(Val(directory.files["field"]).value)
                ELSE field
    /\ field_version' = IF directory.files["field"] # None
                        THEN Val(directory.files["field"]).version
                        ELSE field_version
    /\ field_grad_mag' = Loaded("field_grad_mag", field_grad_mag)
    /\ residual' = Loaded("residual", residual)
    /\ laplacian' = Loaded("laplacian", laplacian)
    /\ potential_derivative' =
           Loaded("potential_derivative", potential_derivative)
    /\ field_grad' = Loaded("field_grad", field_grad)
    /\ p_field' = Loaded("p_field", p_field)
    /\ Pop
    /\ UNCHANGED <<config, probe, scan, locals, ghost, aside>>

\* s.save(filename, auto_override) or s.load(filename), called from outside
CallFiles ==
    \/ Enter("save", <<"save">>)
    \/ Enter("load", <<"load">>)

\* Another FieldSolver is constructed with the same arguments and takes the
\* place of the one in use: its fields are None.
Reconstruct ==
    /\ stack = <<>>
    /\ field # None
    /\ field' = None
    /\ field_version' = 0
    /\ field_grad_mag' = None
    /\ residual' = None
    /\ laplacian' = None
    /\ potential_derivative' = None
    /\ field_grad' = None
    /\ p_field' = None
    /\ UNCHANGED <<config, probe, scan, stack, locals, ghost, aside>>

\* ------------------------------------------------------ probe_function
\* Lengths are carried in units in which the vectors are integers; a norm is
\* carried as its square, and compared with a limit through the squares.
RECURSIVE SumSq(_)
SumSq(x) == IF x = <<>> THEN 0 ELSE x[1] * x[1] + SumSq(Tail(x))

\* np.linalg.norm(v), squared
Norm2(x) == SumSq(x)

\* gradient_vector*displacement + origin
Path(g, k, o) == [c \in 1..Len(g) |-> g[c] * k + o[c]]

\* A test that also holds at the limit.
BelowOrAt(r2, limit) == limit > 0 /\ r2 <= limit * limit

\* radius_distence < radial_limit, for radius_distence >= 0
Below(r2, limit) == limit > 0 /\ r2 < limit * limit

Coords == (0 - MaxCoord)..MaxCoord
Vectors == (Coords \X Coords) \cup {<<0, 0, 0>>, <<1, 0, 0>>}
Limits == 0..MaxRadial

\* No run of the loop that ends takes this many passes: a step of at
\* least one unit leaves the disc of radius radial_limit within
\* radial_limit + 2*MaxCoord passes.  A run that goes on beyond them is
\* followed with the points and the displacement of its first ProbeCap
\* passes; it only goes on when v no longer depends on the displacement.
ProbeCap == MaxRadial + 2 * MaxCoord + 2

\* `function` is carried as the extent of the mesh it lives on: it can be
\* evaluated at the points within that distance of the coordinate origin,
\* and function(v) raises at any other point.  The larger extent holds
\* every point a followed run reaches.
Extents == {MaxCoord, 2 * MaxCoord * (ProbeCap + 1)}
InDomain(x, extent) == Norm2(x) <= extent * extent

\* s.probe_function(function, gradient_vector, origin, radial_limit),
\* called from outside
CallProbe ==
    /\ stack = <<>>
    /\ stack' = <<"probe_function", "return">>
    /\ function' \in Extents
    /\ gradient_vector' \in Vectors
    /\ origin' \in Vectors
    /\ radial_limit' \in Limits
    /\ call' = "probe_function"
    /\ pre' = Snapshot
    /\ UNCHANGED <<config, scan, field, field_version, slots, locals,
                   displacement, radius_distence, v, values, returned,
                   outcome, lin_solves, reads, iterates, solves,
                   computed, aside>>

\* A test of the dimensions that looks at gradient_vector only.
probe_function_gradient_only ==
    /\ Running("probe_function")
    /\ \/ /\ Len(gradient_vector) # mesh_dimension
          /\ returned' = "None"
          /\ Pop
          /\ UNCHANGED <<radius_distence, displacement, values, v>>
       \/ /\ Len(gradient_vector) = mesh_dimension
          /\ radius_distence' = 0
          /\ displacement' = 0
          /\ values' = <<>>
          /\ v' = Path(gradient_vector, 0, origin)
          /\ Goto("probe_loop")
          /\ UNCHANGED returned
    /\ UNCHANGED <<config, scan, field, field_version, slots, locals,
                   function, gradient_vector, origin, radial_limit,
                   ghost, aside>>

\* the test of the dimensions, and what precedes the loop
probe_function ==
    /\ Running("probe_function")
    /\ \/ /\ \/ Len(gradient_vector) # mesh_dimension
             \/ Len(origin) # mesh_dimension
          /\ returned' = "None"
          /\ Pop
          /\ UNCHANGED <<radius_distence, displacement, values, v>>
       \/ /\ Len(gradient_vector) = mesh_dimension
          /\ Len(origin) = mesh_dimension
          /\ radius_distence' = 0
          /\ displacement' = 0
          /\ values' = <<>>
          /\ v' = Path(gradient_vector, 0, origin)
          /\ Goto("probe_loop")
          /\ UNCHANGED returned
    /\ UNCHANGED <<config, scan, field, field_version, slots, locals,
                   function, gradient_vector, origin, radial_limit,
                   ghost, aside>>

\* while radius_distence < radial_limit: the test holds
ProbeLoopTest ==
    /\ Running("probe_loop")
    /\ Below(radius_distence, radial_limit)
    /\ Goto("probe_body")
    /\ UNCHANGED <<config, scan, field, field_version, slots, locals, probe,
                   ghost, aside>>

\* The body of the loop; `values` holds the points function was evaluated
\* at.
ProbeSample ==
    /\ Running("probe_body")
    /\ InDomain(v, function)
    /\ LET d == IF displacement < ProbeCap THEN displacement + 1
                ELSE displacement
       IN  /\ values' = IF Len(values) < ProbeCap THEN Append(values, v)
                        ELSE values
           /\ displacement' = d
           /\ v' = Path(gradient_vector, d, origin)
           /\ radius_distence' = Norm2(v')
    /\ Goto("probe_loop")
    /\ UNCHANGED <<config, scan, field, field_version, slots, locals,
                   function, gradient_vector, origin, radial_limit,
                   returned, ghost, aside>>

\* An evaluation whose exception ends the loop with the samples so far.
ProbeEvalTruncates ==
    /\ Running("probe_body")
    /\ ~InDomain(v, function)
    /\ returned' = "array"
    /\ Pop
    /\ UNCHANGED <<config, scan, field, field_version, slots, locals,
                   function, gradient_vector, origin, radial_limit,
                   displacement, radius_distence, v, values, ghost,
                   aside>>

\* values.append(function(v)) where function(v) raises: nothing catches
\* the exception.
ProbeEvalFails ==
    /\ Running("probe_body")
    /\ ~InDomain(v, function)
    /\ Raise("RuntimeError")
    /\ UNCHANGED <<config, scan, field, field_version, slots, locals, probe,
                   call, pre, computed, lin_solves, reads, iterates,
                   solves, aside>>

\* return np.array(values)
ProbeReturn ==
    /\ Running("probe_loop")
    /\ ~Below(radius_distence, radial_limit)
    /\ returned' = "array"
    /\ Pop
    /\ UNCHANGED <<config, scan, field, field_version, slots, locals,
                   function, gradient_vector, origin, radial_limit,
                   displacement, radius_distence, v, values, ghost,
                   aside>>

\* The caller of probe_function goes on.
ProbeDone ==
    /\ Running("return")
    /\ call = "probe_function"
    /\ stack' = <<>>
    /\ call' = "none"
    /\ pre' = NoSnapshot
    /\ outcome' = "ok"
    /\ function' = 0
    /\ gradient_vector' = <<>>
    /\ origin' = <<>>
    /\ radial_limit' = 0
    /\ displacement' = 0
    /\ radius_distence' = 0
    /\ v' = <<>>
    /\ values' = <<>>
    /\ returned' = "nothing"
    /\ UNCHANGED <<config, scan, field, field_version, slots, locals,
                   lin_solves, reads, iterates, solves, computed,
                   aside>>

\* probe_function in one step, by what it comes to: None, the array of the
\* samples, or the exception of an evaluation outside the mesh.  It assigns
\* no attribute of the solver.
ProbeOutcomes == {"None", "array", "RuntimeError"}

ProbeOutcome ==
    /\ Running("probe_summary")
    /\ \E r \in ProbeOutcomes :
          IF r = "RuntimeError" THEN Raise(r) ELSE Pop /\ UNCHANGED outcome
    /\ UNCHANGED <<config, probe, scan, field, field_version, slots, locals,
                   call, pre, lin_solves, reads, iterates, solves, computed,
                   aside>>

CallProbeOnce == Enter("probe_function", <<"probe_summary">>)

\* ------------------------------------- MeshingTools.constrain_distance
\* The points lie on one axis: a point is its coordinate on that axis, and
\* math.dist of two such points is the absolute difference.
Dist(p, q) == Abs(p - q)

PointLists ==
    UNION {[1..len -> 0..MaxPointCoord] : len \in 1..MaxPoints}

\* The loop over points_list[:-1]: a point closer than Min_length to p_pre
\* is marked False, any other is marked True and becomes p_pre. What is
\* returned are the points marked True, in order.
RECURSIVE Marked(_, _)
Marked(ps, p_pre) ==
    IF ps = <<>> THEN <<>>
    ELSE IF Dist(ps[1], p_pre) < Min_length
         THEN Marked(Tail(ps), p_pre)
         ELSE <<ps[1]>> \o Marked(Tail(ps), ps[1])

\* constrain_distance(points_list): the value returned
constrain_distance(pl) ==
    LET last == pl[Len(pl)]
        kept == Marked(SubSeq(pl, 1, Len(pl) - 1), last)
    IN  IF Len(kept) > 0
        THEN IF Dist(last, kept[Len(kept)]) < Min_length
             THEN [kept EXCEPT ![Len(kept)] = last]
             ELSE Append(kept, last)
        ELSE <<last>>

\* A call of constrain_distance on a list of points.
ConstrainDistance ==
    /\ \E pl \in PointLists :
          /\ points_list' = pl
          /\ points_new' = constrain_distance(pl)
    /\ UNCHANGED <<config, field, field_version, slots, stack, locals, probe,
                   scan, ghost, files, fragment_map, new_shapes, to_remove,
                   raised, entities, boundary_entities, next_tag, source,
                   boundaries, refinement_settings, source_number,
                   boundary_number>>

\* ----------------------------------- MeshingTools.non_intersect_shapes
\* A shape or fragment is its tag. The lists of tags in ascending order:
RECURSIVE Ascending(_)
Ascending(S) ==
    IF S = {} THEN <<>>
    ELSE LET least == CHOOSE x \in S : \A y \in S : x <= y
         IN  <<least>> \o Ascending(S \ {least})

Fragments == 1..MaxFragment

\* What geom.fragment answers for shapes_1 + shapes_2, both non-empty: for
\* each shape the fragments it is made of, at least one.
FragmentMaps ==
    UNION {[1..len -> {Ascending(S) : S \in SUBSET Fragments \ {{}}}] :
              len \in 2..MaxShapes}

\* shape_fragments as the loop over fragment_map builds it
RECURSIVE Flatten(_)
Flatten(fm) == IF fm = <<>> THEN <<>> ELSE fm[1] \o Flatten(Tail(fm))

\* list.pop(k - 1): the list without its k-th element
list_pop(s, k) == SubSeq(s, 1, k - 1) \o SubSeq(s, k + 1, Len(s))

\* The for loop of one pass of the while loop, from the k-th element of
\* the copy shape_fragments[1:] on. The copy is made once, before the
\* first pop; pop(i+1) raises IndexError when the list has become too
\* short for the index.
RECURSIVE ScanCopy(_, _, _)
ScanCopy(st, copy, k) ==
    IF k > Len(copy) \/ st.error THEN st
    ELSE IF st.shape_fragments[1] = copy[k]
         THEN IF k + 1 > Len(st.shape_fragments)
              THEN [st EXCEPT !.error = TRUE]
              ELSE ScanCopy([st EXCEPT
                                !.shape_fragments = list_pop(@, k + 1),
                                !.to_remove =
                                    Append(@, st.shape_fragments[k + 1]),
                                !.in_overlap = TRUE],
                            copy, k + 1)
         ELSE ScanCopy(st, copy, k + 1)

\* The while loop over shape_fragments.
RECURSIVE WhileFragments(_)
WhileFragments(st) ==
    IF st.shape_fragments = <<>> \/ st.error THEN st
    ELSE LET r == ScanCopy([st EXCEPT !.in_overlap = FALSE],
                           Tail(st.shape_fragments), 1)
         IN  IF r.error THEN r
             ELSE WhileFragments(
                      [r EXCEPT
                          !.shape_fragments = Tail(@),
                          !.new_shapes =
                              IF r.in_overlap THEN @
                              ELSE Append(@, r.shape_fragments[1])])

\* What a step of non_intersect_shapes leaves alone.
ShapesFrame ==
    UNCHANGED <<config, field, field_version, slots, stack, locals, probe,
                scan, ghost, files, points_list, points_new, entities,
                boundary_entities, next_tag, source, boundaries,
                refinement_settings, source_number, boundary_number>>

\* non_intersect_shapes(shapes_1, shapes_2), both non-empty: to_remove is
\* what geom.remove is called with, new_shapes what is returned.
non_intersect_shapes ==
    /\ \E fm \in FragmentMaps :
          LET r == WhileFragments([shape_fragments |-> Flatten(fm),
                                   to_remove |-> <<>>,
                                   new_shapes |-> <<>>,
                                   in_overlap |-> FALSE,
                                   error |-> FALSE])
          IN  /\ fragment_map' = fm
              /\ raised' = IF r.error THEN "IndexError" ELSE "nothing"
              /\ new_shapes' = IF r.error THEN <<>> ELSE r.new_shapes
              /\ to_remove' = IF r.error THEN <<>> ELSE r.to_remove
    /\ ShapesFrame

\* non_intersect_shapes with shapes_1 or shapes_2 empty: no fragments are
\* made, the shapes given are removed and nothing is returned.
non_intersect_shapes_empty ==
    /\ \E S \in SUBSET Fragments :
          /\ fragment_map' = <<>>
          /\ raised' = "nothing"
          /\ new_shapes' = <<>>
          /\ to_remove' = Ascending(S)
    /\ ShapesFrame

\* ------------------ MeshingTools.create_subdomain, create_background_mesh
\* The gmsh model and the records of the MeshingTools object. An entity of
\* dimension dim is its tag, and so is the one entity of dimension dim - 1
\* that bounds it; a shape that is made gets a tag no shape had before.
\* getEntities answers the tags in ascending order: entities and
\* boundary_entities are what it answers for dim and for dim - 1.
Tools ==
    [entities |-> entities,
     boundary_entities |-> boundary_entities,
     next_tag |-> next_tag,
     source |-> source,
     boundaries |-> boundaries,
     refinement_settings |-> refinement_settings,
     source_number |-> source_number,
     boundary_number |-> boundary_number]

\* The variables become what the record m says.
Becomes(m) ==
    /\ entities' = m.entities
    /\ boundary_entities' = m.boundary_entities
    /\ next_tag' = m.next_tag
    /\ source' = m.source
    /\ boundaries' = m.boundaries
    /\ refinement_settings' = m.refinement_settings
    /\ source_number' = m.source_number
    /\ boundary_number' = m.boundary_number

\* What a step of these methods leaves alone, besides call and pre, which
\* tell the method called last and the state it was called in.
ToolsFrame ==
    UNCHANGED <<config, field, field_version, slots, stack, locals, probe,
                scan, outcome, lin_solves, reads, iterates, solves, computed,
                files, points_list, points_new, fragment_map, new_shapes,
                to_remove, raised>>

\* The refinement settings of a subdomain: the default values of the
\* parameters of create_subdomain, or others.
DefaultSettings == "default"
Settings == {DefaultSettings, "refined"}

\* del s[:k]
DelPrefix(s, k) == SubSeq(s, k + 1, Len(s))

\* A shape is made in the gmsh model.
AddEntity(m) ==
    [m EXCEPT !.entities = Append(@, m.next_tag),
              !.boundary_entities = Append(@, m.next_tag),
              !.next_tag = @ + 1]

\* The tags of s that are not in S, in the order of s.
Without(s, S) ==
    LET Stays(t) == t \notin S
    IN  SelectSeq(s, Stays)

\* create_subdomain keeping the entry of source it finds empty
create_subdomain_keeping_empty(m, settings) ==
    LET new_source == DelPrefix(m.entities, m.source_number)
        new_boundaries == DelPrefix(m.boundary_entities, m.boundary_number)
    IN  IF new_source # <<>>
        THEN [m EXCEPT
                 !.source = Append(@, new_source),
                 !.source_number = @ + Len(new_source),
                 !.boundaries = Append(@, new_boundaries),
                 !.boundary_number = @ + Len(new_boundaries),
                 !.refinement_settings = Append(@, settings)]
        ELSE [m EXCEPT !.source = Append(@, new_source)]

\* create_subdomain(...): the records after the call. The entities that
\* getEntities answers, without the first source_number of them, are the
\* new entry of source; an empty entry is deleted again.
create_subdomain(m, settings) ==
    LET new_source == DelPrefix(m.entities, m.source_number)
        new_boundaries == DelPrefix(m.boundary_entities, m.boundary_number)
    IN  IF new_source # <<>>
        THEN [m EXCEPT
                 !.source = Append(@, new_source),
                 !.source_number = @ + Len(new_source),
                 !.boundaries = Append(@, new_boundaries),
                 !.boundary_number = @ + Len(new_boundaries),
                 !.refinement_settings = Append(@, settings)]
        ELSE m

\* create_background_mesh(...): the sources are recorded, the background is
\* made (and cut by the sources, which replaces it by what is left of it)
\* and recorded; with wall_thickness the wall is made, cut and recorded,
\* with the settings given if refine_outer_wall_boundary and with the
\* default settings otherwise.
create_background_mesh(m, settings, wall_thickness, refine_outer) ==
    LET sources == create_subdomain(m, settings)
        background == create_subdomain(AddEntity(sources), settings)
    IN  IF wall_thickness
        THEN create_subdomain(AddEntity(background),
                              IF refine_outer THEN settings
                              ELSE DefaultSettings)
        ELSE background

\* create_ellipse, create_rectangle, ...: a shape is made.
CreateShape ==
    /\ next_tag <= MaxTag
    /\ Becomes(AddEntity(Tools))
    /\ call' = "create_shape"
    /\ pre' = Tools
    /\ ToolsFrame

\* add_shapes, subtract_shapes, intersect_shapes, non_intersect_shapes:
\* the shapes given are removed from the model, and what the operation
\* makes of them, one shape or nothing, is in the model.
BooleanOperation ==
    /\ \E S \in SUBSET {entities[k] : k \in 1..Len(entities)} \ {{}} :
       \E made \in BOOLEAN :
          /\ made => next_tag <= MaxTag
          /\ LET removed == [Tools EXCEPT
                                !.entities = Without(@, S),
                                !.boundary_entities = Without(@, S)]
             IN  Becomes(IF made THEN AddEntity(removed) ELSE removed)
    /\ call' = "boolean_operation"
    /\ pre' = Tools
    /\ ToolsFrame

\* A call of create_subdomain.
CreateSubdomain ==
    /\ \E settings \in Settings :
          Becomes(create_subdomain(Tools, settings))
    /\ call' = "create_subdomain"
    /\ pre' = Tools
    /\ ToolsFrame

\* A call of create_background_mesh.
CreateBackgroundMesh ==
    /\ \E settings \in Settings, wall_thickness \in BOOLEAN,
          refine_outer \in BOOLEAN :
          /\ next_tag + (IF wall_thickness THEN 1 ELSE 0) <= MaxTag
          /\ Becomes(create_background_mesh(Tools, settings, wall_thickness,
                                            refine_outer))
    /\ call' = "create_background_mesh"
    /\ pre' = Tools
    /\ ToolsFrame

\* ------------------------------------------------------ specifications
\* The solves under every setting of the solver parameters.
SolverNext ==
    \/ SetParameter
    \/ CallSolve
    \/ picard \/ PicardIterate \/ PicardFail \/ PicardReturn
    \/ newton \/ NewtonIterate \/ NewtonFail \/ NewtonReturn
    \/ Return

SolverSpec == Init /\ [][SolverNext]_vars

\* The solves, the derived quantities and their consumers, under the
\* parameters of __init__.
Next ==
    \/ CallSolve
    \/ picard \/ PicardIterate \/ PicardFail \/ PicardReturn
    \/ newton \/ NewtonIterate \/ NewtonFail \/ NewtonReturn
    \/ CallCalc
    \/ calc_field_grad_vector \/ calc_field_grad_mag \/ calc_field_residual
    \/ calc_laplacian \/ calc_density_field \/ calc_potential_derivative
    \/ CallConsumer
    \/ measure_fifth_force \/ MeasureOutcome
    \/ plot_grad \/ plot_res \/ plot_lapl \/ plot_dpot \/ plot_density
    \/ plot_residual_slice
    \/ Return

Spec == Init /\ [][Next]_vars

\* The solves over a uniform density with exact linear solves, under every
\* setting of the solver parameters.
UniformNext ==
    \/ SetParameter
    \/ CallSolve
    \/ picard \/ PicardExact \/ PicardReturn
    \/ newton \/ NewtonExact \/ NewtonReturn
    \/ SolveDone

UniformSpec == Init /\ [][UniformNext]_vars

\* The derived quantities with the solves they begin with, and what is
\* saved and loaded.
FilesNext ==
    \/ PicardOutcome
    \/ CallCalc
    \/ calc_field_grad_vector \/ calc_field_grad_mag \/ calc_field_residual
    \/ calc_laplacian \/ calc_density_field \/ calc_potential_derivative
    \/ CallFiles
    \/ save
    \/ load
    \/ Reconstruct
    \/ Return

FilesSpec == Init /\ [][FilesNext]_vars

\* Every method of a FieldSolver but picard and newton called from outside,
\* the solves they begin with and probe_function in one step each.
FrameNext ==
    \/ PicardOutcome
    \/ CallCalc
    \/ calc_field_grad_vector \/ calc_field_grad_mag \/ calc_field_residual
    \/ calc_laplacian \/ calc_density_field \/ calc_potential_derivative
    \/ CallConsumer
    \/ measure_fifth_force \/ MeasureOutcome
    \/ plot_grad \/ plot_res \/ plot_lapl \/ plot_dpot \/ plot_density
    \/ plot_residual_slice
    \/ CallProbeOnce
    \/ ProbeOutcome
    \/ CallFiles
    \/ save
    \/ load
    \/ Reconstruct
    \/ Return

FrameSpec == Init /\ [][FrameNext]_vars

\* The constructions of a FieldSolver.
ConstructNext ==
    \/ FieldSolver
    \/ init_symmetry
    \/ init_spaces
    \/ init_fields
    \/ Constructed

ConstructSpec == Unbuilt /\ [][ConstructNext]_vars

\* The calls of measure_fifth_force, vertex by vertex.
MeasureNext ==
    \/ CallMeasure
    \/ measure_fifth_force \/ measure_try \/ measure_vertex \/ measure_return
    \/ calc_field_grad_mag
    \/ picard \/ PicardIterate \/ PicardFail \/ PicardReturn
    \/ Return

MeasureSpec == Init /\ [][MeasureNext]_vars

\* The calls of probe_function on a solver as __init__ leaves it.
ProbeNext ==
    \/ CallProbe
    \/ probe_function
    \/ ProbeLoopTest
    \/ ProbeSample
    \/ ProbeEvalFails
    \/ ProbeReturn
    \/ ProbeDone

ProbeSpec == Init /\ [][ProbeNext]_vars

\* A call that has begun runs on: its next step is taken.
FairProbeSpec ==
    ProbeSpec
        /\ WF_vars(probe_function \/ ProbeLoopTest \/ ProbeSample
                      \/ ProbeEvalFails \/ ProbeReturn)

\* The calls of MeshingTools.constrain_distance.
PointsNext == ConstrainDistance

PointsSpec == Unbuilt /\ [][PointsNext]_vars

\* The calls of MeshingTools.non_intersect_shapes.
ShapesNext ==
    \/ non_intersect_shapes
    \/ non_intersect_shapes_empty

ShapesSpec == Unbuilt /\ [][ShapesNext]_vars

\* The shapes, boolean operations and subdomains of a MeshingTools object.
ToolsNext ==
    \/ CreateShape
    \/ BooleanOperation
    \/ CreateSubdomain
    \/ CreateBackgroundMesh

ToolsSpec == Unbuilt /\ [][ToolsNext]_vars

\* -------------------------------------------------------------- claims
\* A solve called from outside has come back to its caller.
SolveOver == call \in Modes /\ stack = <<"return">> /\ outcome = "ok"

\* C1 as the specification words it: a solve stops at the first iteration
\* whose du norm is <= tol_du or after exactly maxiter iterations, whichever
\* comes first.
C1_StopsAtSmallNormOrMaxiter ==
    SolveOver =>
        /\ i = Len(iterates)
        /\ \/ i = maxiter
           \/ i >= 1 /\ iterates[i].du_norm <= tol_du
        /\ \A k \in 1..(i - 1) : iterates[k].du_norm > tol_du

\* C1: an iteration is started only while the du norm of the one before it
\* (1 before the first) is above tol_du and fewer than maxiter have been
\* done; a solve stops at the first iteration whose du norm is <= tol_du,
\* after exactly maxiter iterations, or before the first iteration when
\* tol_du >= 1, and never does more than maxiter iterations.
C1_StoppingRule ==
    (call \in Modes /\ outcome = "ok") =>
        /\ i = Len(iterates)
        /\ i <= maxiter
        /\ \A k \in 1..i :
              (IF k = 1 THEN DuNormSeed ELSE iterates[k - 1].du_norm) > tol_du
        /\ i >= 1 => du_norm = iterates[i].du_norm
        /\ SolveOver => \/ i = maxiter
                        \/ i >= 1 /\ du_norm <= tol_du
                        \/ i = 0 /\ DuNormSeed <= tol_du

\* A solve with iterations to spare stops at its first small du norm.
C1_Witness ==
    SolveOver /\ maxiter = 2 /\ i = 1 /\ tol_du = 0 /\ du_norm = 0

\* maxiter iterations are done and the last du norm is above tol_du.
Exhausted ==
    /\ call \in Modes
    /\ stack = <<"return">>
    /\ Len(iterates) = maxiter
    /\ du_norm > tol_du

\* C2: a solve that uses up its maxiter iterations with the du norm still
\* above tol_du returns normally, and self.field is its last iterate.
C2_ExhaustedSolveReturns ==
    Exhausted =>
        /\ outcome = "ok"
        /\ field = Some(IF maxiter = 0 THEN field_min
                        ELSE iterates[maxiter].field)

C2_Witness == Exhausted /\ maxiter >= 1 /\ outcome = "ok"

\* C3: when the loop of picard or newton is reached the field is the
\* constant field_min, and the first iterate is an update of field_min,
\* whatever field the solver held before.
C3_SolveStartsFromFieldMin ==
    /\ \A loop \in {"picard_loop", "newton_loop"} :
          (Running(loop) /\ i = 0) => field = Some(field_min)
    /\ (call \in Modes /\ iterates # <<>>) =>
          \E du \in DuVals :
              iterates[1].field = field_min + relaxation_parameter * du

\* A solve begins on a solver whose field an earlier solve left away from
\* field_min.
C3_Witness ==
    /\ \E loop \in {"picard_loop", "newton_loop"} : Running(loop)
    /\ i = 0
    /\ pre.field # None
    /\ pre.field # Some(field_min)
    /\ field = Some(field_min)

\* A calc_* method called from outside has come back to its caller.
CalcOver == call \in CalcOps /\ stack = <<"return">> /\ outcome = "ok"

\* C4 as the specification words it: each of the six calc_* methods, called
\* while the field is unset, first runs a Picard solve, so that the field is
\* set when it returns.
C4_EveryCalcSolvesFirst ==
    (CalcOver /\ pre.field = None) =>
        /\ field # None
        /\ solves = <<"picard">>

\* C4: calc_field_grad_vector, calc_field_grad_mag, calc_field_residual and
\* calc_potential_derivative, and calc_laplacian when field_grad is unset,
\* called while the field is unset, first run one Picard solve and return
\* with the field set; calc_density_field runs no solve and leaves the
\* field as it was.
C4_CalcSolvesFirst ==
    CalcOver =>
        /\ ( /\ call # "calc_density_field"
             /\ call = "calc_laplacian" => pre.field_grad = None
             /\ pre.field = None )
              => /\ field # None
                 /\ solves = <<"picard">>
                 /\ field_version = pre.field_version + 1
        /\ call = "calc_density_field"
              => /\ field = pre.field
                 /\ field_version = pre.field_version
                 /\ solves = <<>>

C4_Witness ==
    /\ CalcOver
    /\ call = "calc_field_residual"
    /\ pre.field = None
    /\ solves = <<"picard">>

\* The slot a calc_* method fills, in the attributes s.
SlotOf(op, s) ==
    CASE op = "calc_field_grad_vector" -> s.field_grad
      [] op = "calc_field_grad_mag" -> s.field_grad_mag
      [] op = "calc_field_residual" -> s.residual
      [] op = "calc_laplacian" -> s.laplacian
      [] op = "calc_density_field" -> s.p_field
      [] op = "calc_potential_derivative" -> s.potential_derivative

\* The slot of op holds, in s, what op computes from s: op was the last to
\* fill it and no solve or gradient projection has happened since.
UpToDate(op, s) ==
    /\ s.field # None
    /\ SlotOf(op, s) # None
    /\ CASE op = "calc_field_residual" ->
                /\ s.field_grad # None
                /\ s.residual = Some(<<s.field_version, Val(s.field_grad)>>)
         [] op = "calc_laplacian" ->
                /\ s.field_grad # None
                /\ s.laplacian = Some(Val(s.field_grad))
         [] op = "calc_density_field" -> s.p_field = Some(density_exp)
         [] OTHER -> SlotOf(op, s) = Some(s.field_version)

C6_SolveLeavesSlots ==
    call \in Modes =>
        /\ field_grad_mag = pre.field_grad_mag
        /\ residual = pre.residual
        /\ laplacian = pre.laplacian
        /\ potential_derivative = pre.potential_derivative
        /\ field_grad = pre.field_grad
        /\ p_field = pre.p_field

\* A solve has replaced the field of a solver that holds derived values.
C6_Witness ==
    /\ SolveOver
    /\ field # pre.field
    /\ pre.field_grad_mag # None
    /\ pre.residual # None
    /\ residual = pre.residual

\* C7: whatever measure_fifth_force, plot_results or plot_residual_slice
\* reads from a derived slot was computed from the field the solver holds
\* at the time of the read.
C7_ReadsAreOfCurrentField ==
    \A r \in reads : r.sources \subseteq {r.field_version}

\* probe_function has returned an array to its caller.
ProbeOver ==
    call = "probe_function" /\ stack = <<"return">> /\ returned = "array"

\* The point at displacement k is at or beyond radial_limit.
Leaves(k) ==
    Norm2(Path(gradient_vector, k, origin)) >= radial_limit * radial_limit

\* C8: with vectors of the mesh dimension and radial_limit > 0,
\* probe_function returns exactly K samples, taken at
\* gradient_vector*k + origin for k = 0..K-1, where K is the least k >= 1
\* with norm(gradient_vector*k + origin) >= radial_limit.
C8_ProbeReturnsKSamples ==
    (ProbeOver /\ radial_limit > 0) =>
        \E K \in 1..ProbeCap :
            /\ Leaves(K)
            /\ \A k \in 1..(K - 1) : ~Leaves(k)
            /\ Len(values) = K
            /\ \A k \in 0..(K - 1) :
                  values[k + 1] = Path(gradient_vector, k, origin)

C8_Witness ==
    /\ ProbeOver
    /\ gradient_vector = <<2, 0>>
    /\ origin = <<0, 0>>
    /\ radial_limit = 5
    /\ Len(values) = 3

C10_ProbeTerminates == Running("probe_function") ~> Running("return")

\* probe_function is back at its caller, having been given a vector that
\* is not of the mesh dimension.
ProbeMismatchOver ==
    /\ call = "probe_function"
    /\ stack = <<"return">>
    /\ \/ Len(gradient_vector) # mesh_dimension
       \/ Len(origin) # mesh_dimension

Sampled ==
    {k \in 0..ProbeCap :
        /\ radial_limit > 0
        /\ \A j \in 1..k : ~Leaves(j)}

\* C12: a probe_function call on vectors of the mesh dimension, one of
\* whose sample points lies outside the mesh of the function, ends with the
\* exception of that evaluation and returns no array; an array that is
\* returned holds samples at points of the mesh only.
C12_OutsideMeshAbortsProbe ==
    ( /\ call = "probe_function"
      /\ stack = <<"return">>
      /\ ~ProbeMismatchOver )
      => /\ (\E k \in Sampled :
                ~InDomain(Path(gradient_vector, k, origin), function))
            => /\ outcome = "RuntimeError"
               /\ returned = "nothing"
         /\ returned = "array"
            => \A k \in 1..Len(values) : InDomain(values[k], function)
         /\ outcome = "RuntimeError" => returned = "nothing"

\* Samples were taken before the evaluation that failed.
C12_Witness ==
    /\ call = "probe_function"
    /\ stack = <<"return">>
    /\ outcome = "RuntimeError"
    /\ Len(values) >= 2
    /\ ~InDomain(v, function)

\* The vertex the loop of measure_fifth_force visited last is one the
\* gradient magnitude was taken at.
Qualified == measured # <<>> /\ measured[Len(measured)].vertex = visited

\* A vertex has been visited in the call of measure_fifth_force under way.
VertexVisited == call = "measure_fifth_force" /\ visited >= 1

\* C13 as the specification words it: a vertex qualifies if and only if
\* boundary_distance - tol/2 <= d < boundary_distance + tol/2.
C13_BandIsHalfOpen ==
    VertexVisited =>
        (Qualified <=> /\ 2 * boundary_distance - tol <= 2 * distance
                       /\ 2 * distance < 2 * boundary_distance + tol)

\* C13: a vertex qualifies if and only if
\* boundary_distance - tol/2 < d < boundary_distance + tol/2, both ends
\* excluded.
C13_BandIsOpen ==
    VertexVisited =>
        (Qualified <=> /\ 2 * boundary_distance - tol < 2 * distance
                       /\ 2 * distance < 2 * boundary_distance + tol)

\* A vertex at the lower end of a band that is not empty.
C13_Witness ==
    /\ VertexVisited
    /\ tol = 2
    /\ 2 * distance = 2 * boundary_distance - tol
    /\ ~Qualified

\* measure_fifth_force is back at its caller after the scan of the
\* vertices.
MeasureOver ==
    /\ call = "measure_fifth_force"
    /\ stack = <<"return">>
    /\ outcome # BadSubdomain
    /\ outcome # "LinearSolveFailure"

\* C14: when a vertex lies in the band, measure_fifth_force returns the
\* value and the vertex of a largest gradient magnitude among the vertices
\* in the band, whatever the values; it ends in the no-vertex exception
\* only when no vertex lies in the band.
C14_ReturnsLargestInBand ==
    MeasureOver =>
        IF measured = <<>>
        THEN outcome = NoVertexFound
        ELSE /\ outcome = "ok"
             /\ result # None
             /\ \E k \in 1..Len(measured) :
                   /\ Val(result) = <<measured[k].ff, measured[k].vertex>>
                   /\ \A j \in 1..Len(measured) :
                         measured[j].ff <= measured[k].ff

\* A construction of a FieldSolver is over.
ConstructOver == call = "FieldSolver" /\ Running("return")

\* C16 as stated: construction ends in the fatal error exactly when the
\* symmetry tag is none of vertical axis-symmetry, horizontal axis-symmetry,
\* cylinder slice and none, whatever the dimension of the mesh; with a
\* recognised tag a symmetry weight is defined, and the fatal error comes
\* before any interpolation or assembly.
C16_FatalExactlyForUnrecognisedTag ==
    ConstructOver =>
        /\ (outcome = "SystemExit") <=>
               (mesh_symmetry \notin {VerticalAxis, HorizontalAxis,
                                      CylinderSlice, "none"})
        /\ (outcome = "SystemExit") => setup_work = <<>>
        /\ (outcome = "ok") => sym_factor # None

\* C16: construction ends in the fatal error exactly when the mesh is 2-D
\* and the symmetry tag is none of vertical axis-symmetry, horizontal
\* axis-symmetry and cylinder slice; the fatal error comes before any
\* interpolation or assembly and leaves no symmetry weight, every other
\* construction has a symmetry weight defined, and that of a 3-D mesh is 1
\* whatever the tag.
C16_FatalExactlyFor2DUnrecognisedTag ==
    ConstructOver =>
        /\ (outcome = "SystemExit") <=>
               (/\ mesh_dimension = 2
                /\ mesh_symmetry \notin {VerticalAxis, HorizontalAxis,
                                         CylinderSlice})
        /\ (outcome = "SystemExit") => (setup_work = <<>> /\ sym_factor = None)
        /\ (outcome # "SystemExit") => sym_factor # None
        /\ (outcome # "SystemExit" /\ mesh_dimension = 3) =>
               sym_factor = Some("1")

\* A 2-D construction with the tag none has ended in the fatal error.
C16_Witness ==
    /\ ConstructOver
    /\ mesh_dimension = 2
    /\ mesh_symmetry = "none"
    /\ outcome = "SystemExit"
    /\ setup_work = <<>>

\* C17: a construction with a negative n or an alpha that is not greater
\* than 0 is rejected with a configuration error before any interpolation
\* or assembly.
C17_InvalidParametersRejected ==
    (ConstructOver /\ (n < 0 \/ alpha <= 0)) =>
        /\ outcome \in {"ConfigurationError", "SystemExit"}
        /\ setup_work = <<>>

\* A solve called from outside has ended in the exception of a linear
\* solve.
SolveFailedOver ==
    /\ call \in Modes
    /\ stack = <<"return">>
    /\ outcome = "LinearSolveFailure"

\* C18: when a linear solve of an outer iteration fails, the failure
\* reaches the caller and the solver does not hold the initial guess or a
\* partly iterated field of that solve: its field is what it was before the
\* solve.
C18_FailedSolveLeavesNoField ==
    SolveFailedOver => field = pre.field

\* C19: a pass of picard or newton that leaves the field zero or negative
\* is the last pass the solve completes: the next one fails in its
\* assembly.
C19_NoPassAfterNonPositiveField ==
    call \in Modes =>
        \A k \in 1..(Len(iterates) - 1) : iterates[k].field > 0

\* C20: whenever a solve can start, field_min is density_max^(-1/(n+1)) for
\* the n the solver has then.
C20_FieldMinFollowsN ==
    (\E m \in Modes : Running(m)) => field_min = FieldMin(density_exp, n)

\* A call of picard or newton from outside is over, however it ended.
SolveEnded == call \in Modes /\ Running("return")

\* C29: a solve calls the linear solver at least once if and only if
\* tol_du is below 1 and maxiter is at least 1; a solve that does not is
\* over with no pass made and the field at the initial guess field_min.
C29_IteratesIffTolBelowSeed ==
    SolveEnded =>
        /\ (lin_solves >= 1) <=> (tol_du < 1 /\ maxiter >= 1)
        /\ (tol_du >= 1 \/ maxiter <= 0) =>
               /\ lin_solves = 0
               /\ iterates = <<>>
               /\ field = Some(field_min)
               /\ outcome = "ok"

\* A solve with tol_du at 1 and a positive maxiter is over without a pass.
C29_Witness ==
    /\ SolveEnded
    /\ tol_du = 1
    /\ maxiter >= 1
    /\ lin_solves = 0
    /\ field = Some(field_min)

\* The methods that compute an input of theirs only when it is unset, the
\* slots each of them takes its input from, and the slot it assigns.
LazyOps == {"calc_field_residual", "calc_laplacian", "measure_fifth_force",
            "plot_residual_slice"}
Upstream(op) ==
    CASE op = "calc_field_residual" -> {"field_grad"}
      [] op = "calc_laplacian" -> {"field_grad"}
      [] op = "measure_fifth_force" -> {"field_grad_mag"}
      [] op = "plot_residual_slice" -> {"residual", "laplacian",
                                        "potential_derivative", "p_field"}
Assigns(op) ==
    CASE op = "calc_field_residual" -> {"residual"}
      [] op = "calc_laplacian" -> {"laplacian"}
      [] OTHER -> {}

\* How often the call under way has computed a slot.
Times(slot) == Cardinality({k \in 1..Len(computed) : computed[k] = slot})

\* One of the four methods is over and no linear solve of it has failed.
LazyOver ==
    /\ call \in LazyOps
    /\ Running("return")
    /\ outcome # "LinearSolveFailure"

\* C26: calc_field_residual, calc_laplacian, measure_fifth_force and
\* plot_residual_slice compute each slot they take an input from once if it
\* was unset at the call and not at all if it was set; calc_field_residual
\* runs one solve if the field was unset and none if it was set; no method
\* runs a solve when the field was set, none computes an already set slot
\* other than the one it assigns, and the slot a calc method assigns is
\* computed after its inputs.
C26_UpstreamComputedIffUnset ==
    LazyOver =>
        /\ \A s \in Upstream(call) :
               Times(s) = IF pre[s] = None THEN 1 ELSE 0
        /\ call = "calc_field_residual" =>
               Len(solves) = IF pre.field = None THEN 1 ELSE 0
        /\ pre.field # None => solves = <<>>
        /\ Len(solves) <= 1
        /\ \A s \in {"field_grad_mag", "residual", "laplacian",
                     "potential_derivative", "field_grad", "p_field"}
                        \ Assigns(call) :
               /\ Times(s) <= 1
               /\ pre[s] # None => Times(s) = 0
        /\ \A s \in Assigns(call) :
               /\ Times(s) = 1
               /\ computed[Len(computed)] = s

\* plot_residual_slice was called with the residual set and the laplacian
\* unset and is over, having computed the laplacian only.
C26_Witness ==
    /\ LazyOver
    /\ call = "plot_residual_slice"
    /\ pre.residual # None
    /\ pre.laplacian = None
    /\ pre.potential_derivative # None
    /\ pre.p_field # None
    /\ computed = <<"laplacian">>

\* A call of save has returned.
SaveOver == call = "save" /\ Running("return") /\ outcome = "ok"

\* The attributes of the solver that are set.
SetSlots ==
    {a \in Artifacts :
        \/ a = "field" /\ field # None
        \/ a = "field_grad_mag" /\ field_grad_mag # None
        \/ a = "residual" /\ residual # None
        \/ a = "laplacian" /\ laplacian # None
        \/ a = "potential_derivative" /\ potential_derivative # None
        \/ a = "field_grad" /\ field_grad # None
        \/ a = "p_field" /\ p_field # None}

\* C21: after save has returned, the directory holds a file for exactly the
\* attributes that are set in the saving solver, also when the directory
\* existed before.
C21_DirectoryHoldsExactlySetSlots ==
    SaveOver =>
        {a \in Artifacts : directory.files[a] # None} = SetSlots

\* C30: while a method other than picard, newton and load runs that was
\* called with the field set, the field is the one it was called with and
\* no solve has been run.
C30_FieldChangesOnlyBySolveOrLoad ==
    (stack # <<>> /\ call \notin Modes \cup {"load"} /\ pre.field # None) =>
        /\ field = pre.field
        /\ field_version = pre.field_version
        /\ solves = <<>>

\* plot_residual_slice was called with the field set and has computed
\* slots.
C30_Witness ==
    /\ call = "plot_residual_slice"
    /\ Running("return")
    /\ pre.field # None
    /\ computed # <<>>
    /\ field = pre.field

\* C22: over a uniform density rho0 = 2^(-density_exp) a solve that is over
\* has the field at rho0^(-1/(n+1)) for the n it was run with, after at most
\* one pass, whose norm is 0.
C22_UniformDensityGivesFieldMin ==
    SolveOver =>
        /\ field = Some(2 ^ (density_exp \div (n + 1)))
        /\ Len(iterates) <= 1
        /\ \A k \in 1..Len(iterates) : iterates[k].du_norm = 0

\* The solve before this one was of the other method with the same
\* parameters.
SameProblem ==
    /\ last_run # None
    /\ Val(last_run).mode # call
    /\ Val(last_run).n = n
    /\ Val(last_run).field_min = field_min
    /\ Val(last_run).relaxation_parameter = relaxation_parameter
    /\ Val(last_run).tol_du = tol_du
    /\ Val(last_run).maxiter = maxiter

C24_NeighboursAtLeastMinLength ==
    \A k \in 1..(Len(points_new) - 1) :
        Dist(points_new[k], points_new[k + 1]) >= Min_length

\* The returned points other than the last are pairwise neighbours at
\* least Min_length apart: what fails is the last point alone.
C24_AllButLastApart ==
    \A k \in 1..(Len(points_new) - 2) :
        Dist(points_new[k], points_new[k + 1]) >= Min_length

\* How often fragment t occurs in the fragment map.
Occurrences(t) ==
    Cardinality({k \in 1..Len(fragment_map) :
                    \E j \in 1..Len(fragment_map[k]) :
                        fragment_map[k][j] = t})

Elements(s) == {s[k] : k \in 1..Len(s)}

\* C25: for non-empty shapes_1 and shapes_2, non_intersect_shapes ends
\* without an error, returns exactly the fragments that occur once in the
\* fragment map, and removes only fragments that occur more than once.
C25_ReturnsFragmentsOccurringOnce ==
    fragment_map # <<>> =>
        /\ raised = "nothing"
        /\ Elements(new_shapes) = {t \in Fragments : Occurrences(t) = 1}
        /\ Elements(to_remove) \subseteq
               {t \in Fragments : Occurrences(t) > 1}

\* When no fragment occurs more than twice, the call does what C25 says.
C25_RightUpToTwoOccurrences ==
    (fragment_map # <<>> /\ \A t \in Fragments : Occurrences(t) <= 2) =>
        /\ raised = "nothing"
        /\ Elements(new_shapes) = {t \in Fragments : Occurrences(t) = 1}
        /\ Elements(to_remove) = {t \in Fragments : Occurrences(t) = 2}

\* A fragment that occurs once is removed and one that occurs three times
\* is returned.
C25_RemovesFragmentOccurringOnce ==
    ~ \E t \in Elements(to_remove) : Occurrences(t) = 1

\* The call ends in an IndexError.
C25_NoIndexError == raised # "IndexError"

\* The entities recorded in the subdomains src.
RecordedIn(src) == UNION {Elements(src[k]) : k \in 1..Len(src)}

\* C23: each create_subdomain call records as the new subdomain exactly
\* the entities now in the model that are in no subdomain recorded before
\* (and records no subdomain when there is none); no entity is recorded in
\* two subdomains, and after create_background_mesh, which ends with a
\* create_subdomain call, no entity of the model is left out.
C23_SubdomainIsExactlyTheNewEntities ==
    /\ \A j, k \in 1..Len(source) :
       \A a \in 1..Len(source[j]), b \in 1..Len(source[k]) :
           source[j][a] = source[k][b] => (j = k /\ a = b)
    /\ call = "create_subdomain" =>
           LET new == Elements(entities) \ RecordedIn(pre.source)
           IN  source = IF new = {} THEN pre.source
                        ELSE Append(pre.source, Ascending(new))
    /\ call = "create_background_mesh" =>
           Elements(entities) \subseteq RecordedIn(source)

\* No entity is recorded in two subdomains, or twice in one.
C23_NoEntityRecordedTwice ==
    \A j, k \in 1..Len(source) :
    \A a \in 1..Len(source[j]), b \in 1..Len(source[k]) :
        source[j][a] = source[k][b] => (j = k /\ a = b)

\* As long as no shape was removed from the model, create_subdomain
\* records exactly the new entities.
C23_RightWhileNothingIsRemoved ==
    (/\ call = "create_subdomain"
     /\ RecordedIn(pre.source) \subseteq Elements(entities)) =>
        LET new == Elements(entities) \ RecordedIn(pre.source)
        IN  source = IF new = {} THEN pre.source
                     ELSE Append(pre.source, Ascending(new))

\* The number of entities over all entries of a list of lists.
RECURSIVE Total(_)
Total(ss) == IF ss = <<>> THEN 0 ELSE Len(ss[1]) + Total(Tail(ss))

\* C27: source, boundaries and refinement_settings have the same length,
\* no entry of source is empty, source_number is the number of entities
\* over all entries of source and boundary_number the number over all
\* entries of boundaries; a create_subdomain call made when every entity
\* of the model is in a recorded subdomain changes none of them.
C27_RecordsStayConsistent ==
    /\ Len(source) = Len(boundaries)
    /\ Len(source) = Len(refinement_settings)
    /\ \A k \in 1..Len(source) : source[k] # <<>>
    /\ source_number = Total(source)
    /\ boundary_number = Total(boundaries)
    /\ (/\ call = "create_subdomain"
        /\ Elements(pre.entities) \subseteq RecordedIn(pre.source)) =>
           /\ source = pre.source
           /\ boundaries = pre.boundaries
           /\ refinement_settings = pre.refinement_settings
           /\ source_number = pre.source_number
           /\ boundary_number = pre.boundary_number

\* create_subdomain was called with two subdomains recorded, one of them
\* by create_background_mesh, and found every entity recorded.
C27_Witness ==
    /\ call = "create_subdomain"
    /\ Len(source) >= 2
    /\ pre.entities # <<>>
    /\ Elements(pre.entities) \subseteq RecordedIn(pre.source)
    /\ source_number = Len(entities)

====
